---- MODULE Spec2Model ----
(***************************************************************************)
(* Blog CRUD service (Express + Mongoose).  The repository holds the same  *)
(* server in several revisions; the two revisions that carry a slug are    *)
(* modelled side by side, selected by the variable `variant`:              *)
(*   "server"   - src/server.js lines 130-334 (slug optional in the schema,*)
(*                slug probe in the POST route, filtered count)            *)
(*   "part_000" - src/unnamed/part_000 (slug required in the schema, no    *)
(*                probe in the POST route, unfiltered count, update runs   *)
(*                validators)                                              *)
(* GET /api/blogs/:id exists only in the slug-less revisions               *)
(* (src/server.js lines 75-84, src/unnamed/part_001 lines 72-81); it reads *)
(* the store and is modelled beside the other routes.                      *)
(*                                                                         *)
(* Text is a sequence of one-character strings.  Every store call of a     *)
(* handler is one atomic step; the handler's local code that follows the   *)
(* call belongs to the same step.                                          *)
(***************************************************************************)
EXTENDS Integers, Sequences, FiniteSets, TLC

VARIABLES variant, posts, nextId, reqs, nreq, resp, hist

vars == <<variant, posts, nextId, reqs, nreq, resp, hist>>

\* ---------------------------------------------------------------- bounds
\* requests (of any route) received over a behaviour
MaxReqs == 3
\* requests that may be in flight (between two store calls) at once
MaxInFlight == 2
\* requests received over a behaviour in which they are handled one at a time
MaxSerialReqs == 4

\* ---------------------------------------------------------------- text
\* JavaScript `undefined`: a field the request body does not carry
Absent == <<"undefined">>

UpperCase == <<"A","B","C","D","E","F","G","H","I","J","K","L","M",
               "N","O","P","Q","R","S","T","U","V","W","X","Y","Z">>
LowerCase == <<"a","b","c","d","e","f","g","h","i","j","k","l","m",
               "n","o","p","q","r","s","t","u","v","w","x","y","z">>
Digits == <<"0","1","2","3","4","5","6","7","8","9">>

\* the character class [a-z0-9]
IsAlnum(c) ==
  \/ \E i \in 1..Len(LowerCase) : LowerCase[i] = c
  \/ \E i \in 1..Len(Digits) : Digits[i] = c

LowerChar(c) ==
  IF \E i \in 1..Len(UpperCase) : UpperCase[i] = c
  THEN LowerCase[CHOOSE i \in 1..Len(UpperCase) : UpperCase[i] = c]
  ELSE c

\* String.prototype.toLowerCase
toLowerCase(s) == [i \in 1..Len(s) |-> LowerChar(s[i])]

RECURSIVE SkipNonAlnum(_)
SkipNonAlnum(s) ==
  IF s = <<>> \/ IsAlnum(Head(s)) THEN s ELSE SkipNonAlnum(Tail(s))

\* .replace(/[^a-z0-9]+/g, "-"): every maximal run outside [a-z0-9] becomes "-"
RECURSIVE ReplaceRuns(_)
ReplaceRuns(s) ==
  IF s = <<>> THEN <<>>
  ELSE IF IsAlnum(Head(s)) THEN <<Head(s)>> \o ReplaceRuns(Tail(s))
  ELSE <<"-">> \o ReplaceRuns(SkipNonAlnum(Tail(s)))

\* .replace(/(^-|-$)+/g, ""): on a string without two hyphens in a row (which
\* is what ReplaceRuns yields) this drops one leading and one trailing hyphen
StripEnds(s) ==
  LET a == IF s # <<>> /\ Head(s) = "-" THEN Tail(s) ELSE s
  IN  IF a # <<>> /\ a[Len(a)] = "-" THEN SubSeq(a, 1, Len(a) - 1) ELSE a

\* baseSlug
Slugify(title) == StripEnds(ReplaceRuns(toLowerCase(title)))

\* decimal text of a natural number, as template-literal interpolation gives
RECURSIVE Decimal(_)
Decimal(n) ==
  IF n < 10 THEN <<Digits[n + 1]>>
  ELSE Decimal(n \div 10) \o <<Digits[(n % 10) + 1]>>

\* `${baseSlug}-${count}`
Suffixed(baseSlug, count) == baseSlug \o <<"-">> \o Decimal(count)

\* JavaScript truthiness of an optional string
Truthy(x) == x # Absent /\ x # <<>>

\* s contains t as a contiguous piece
Contains(s, t) ==
  \E i \in 0..(Len(s) - Len(t)) : SubSeq(s, i + 1, i + Len(t)) = t

\* { field: { $regex: search, $options: "i" } } for a search text that holds
\* no regular-expression metacharacter
RegexMatchI(field, search) == Contains(toLowerCase(field), toLowerCase(search))

\* ---------------------------------------------------------------- inputs
\* titles a request may carry: none, the empty string, one without any
\* character of [a-z0-9], and one whose base slug is "a-b"
Titles == { Absent, <<>>, <<"!">>, <<" ","A","!"," ","b","-">> }
\* slug field of a request body
BodySlugs == { Absent, <<"x">> }
\* author stands for each of the other required text fields
\* (author, image, summary, content)
Authors == { Absent, <<"Z">> }
Bodies == [title : Titles, slug : BodySlugs, author : Authors]
\* search texts: none, one matching a title only by ignoring case, one
\* matching the author
Searches == { <<>>, <<"B">>, <<"z">> }
Pages == {1, 2}
\* const { page = 1, limit = 6, search = "" } = req.query
DefaultLimit == 6
Limits == {1, 2}

Slots == 1..MaxInFlight

\* :id path parameter: wf says whether it casts to the store's id type
Malformed == [wf |-> FALSE, n |-> 0]
WellFormed(n) == [wf |-> TRUE, n |-> n]
\* ids a request may name: malformed, well formed and never assigned (0),
\* or any id the store has assigned so far
Params == {Malformed} \cup {WellFormed(n) : n \in 0..(nextId - 1)}
ParamSpace == {Malformed} \cup {WellFormed(n) : n \in 0..MaxReqs}

NoId == 0
\* the id field of a request that names no post
NoParam == WellFormed(NoId)
NoText == <<>>
NoItems == <<>>

Idle == [pc |-> "idle"]

\* an HTTP response: the route, the status, the error the catch block saw
\* and the paths its message names, the post concerned, and what a count or
\* a listing returns
Response(op, status, err, paths, id, search, count, items) ==
  [op |-> op, status |-> status, err |-> err, paths |-> paths, id |-> id,
   search |-> search, count |-> count, items |-> items]

Plain(op, status, err, id) == Response(op, status, err, {}, id, NoText, 0, NoItems)

Invalid(op, paths, id) ==
  Response(op, 400, "ValidationError", paths, id, NoText, 0, NoItems)

\* ---------------------------------------------------------------- store
Ids == DOMAIN posts

\* Blog.findOne({ slug }) / Blog.findOne({ slug, _id: { $ne: id } })
FindOneSlug(slug, exceptId) ==
  \E i \in Ids : posts[i].slug = slug /\ i # exceptId

\* a store without the unique index
UniqueIndexOff(slug, exceptId) == FALSE

\* unique index on slug, enforced by the store when it applies a write
UniqueIndexRejects(slug, exceptId) == FindOneSlug(slug, exceptId)

\* the search filter of the listing route
ListQuery(search) ==
  IF search # <<>>
  THEN { i \in Ids : RegexMatchI(posts[i].title, search)
                     \/ RegexMatchI(posts[i].author, search) }
  ELSE Ids

\* the filter of the count route
CountQuery(search) ==
  IF variant = "server"
  THEN IF search # <<>>
       THEN { i \in Ids : RegexMatchI(posts[i].title, search)
                          \/ RegexMatchI(posts[i].author, search) }
       ELSE Ids
  ELSE Ids

\* .sort({ createdAt: -1 })
RECURSIVE SortNewestFirst(_)
SortNewestFirst(S) ==
  IF S = {} THEN <<>>
  ELSE LET m == CHOOSE i \in S : \A j \in S : posts[j].createdAt <= posts[i].createdAt
       IN  <<m>> \o SortNewestFirst(S \ {m})

\* .skip((page - 1) * limit).limit(Number(limit))
SkipLimit(seq, page, limit) ==
  LET from == (page - 1) * limit + 1
      to   == IF from + limit - 1 < Len(seq) THEN from + limit - 1 ELSE Len(seq)
  IN  SubSeq(seq, from, to)

\* a schema whose title is not required
InvalidPathsNoTitle(doc) ==
  { p \in {"author"} : ~Truthy(doc[p]) }
  \cup (IF variant = "part_000" /\ ~Truthy(doc.slug) THEN {"slug"} ELSE {})

\* required-field validation of a new document (Document.validate, which
\* save() runs before the pre('save') hooks)
InvalidPaths(doc) ==
  { p \in {"title", "author"} : ~Truthy(doc[p]) }
  \cup (IF variant = "part_000" /\ ~Truthy(doc.slug) THEN {"slug"} ELSE {})

\* update validators (runValidators: true, part_000 only) look at the paths
\* the update sets
InvalidUpdatePaths(body) ==
  IF variant = "part_000"
  THEN { p \in {"title", "slug", "author"} : body[p] = <<>> }
  ELSE {}

\* ---------------------------------------------------------------- requests
\* A request in flight is a handler suspended at a store call; an action
\* runs the call and the handler's code up to its next call or its response.
\* A request's first call is made in the step that accepts it.
Init ==
  /\ variant \in {"server", "part_000"}
  /\ posts = << >>
  /\ nextId = 1
  /\ reqs = [s \in Slots |-> Idle]
  /\ nreq = 0
  /\ resp = Plain("none", 0, "none", NoId)
  /\ hist = [kind |-> "none", title |-> NoText]

\* a request is accepted into the lowest free slot
Free(s) ==
  /\ reqs[s] = Idle
  /\ \A u \in Slots : u < s => reqs[u] # Idle

InFlight == { u \in Slots : reqs[u] # Idle }

\* the requests in flight are no longer alone once another one is handled
Others(s) ==
  [u \in Slots |-> IF u = s \/ reqs[u] = Idle THEN Idle
                   ELSE [reqs[u] EXCEPT !.alone = FALSE]]

Mixed == [kind |-> "mixed", title |-> NoText]

\* if (!this.isModified("title") && this.slug) return next();
\* every path of a new document that the body sets counts as modified
HookRuns(doc) == ~(~(doc.title # Absent) /\ Truthy(doc.slug))

\* blog.save() of the document built from `doc`: validation, then the
\* pre('save') hook, whose first findOne is the next store call
SaveEntry(doc) ==
  IF InvalidPaths(doc) # {} THEN [pc |-> "invalid", paths |-> InvalidPaths(doc)]
  ELSE IF HookRuns(doc)
  THEN [pc |-> "hook", id |-> NoParam, body |-> doc,
        baseSlug |-> Slugify(doc.title), slug |-> Slugify(doc.title),
        count |-> 1, alone |-> FALSE]
  ELSE [pc |-> "insert", id |-> NoParam, body |-> doc,
        baseSlug |-> NoText, slug |-> doc.slug, count |-> 1, alone |-> FALSE]

\* if (!req.body.slug && req.body.title): the POST route probes first
RouteProbes(body) == variant = "server" /\ ~Truthy(body.slug) /\ Truthy(body.title)

\* one turn of the POST route's loop
\*   while (await Blog.findOne({ slug })) slug = `${baseSlug}-${count++}`
\* and, once the slug is free, req.body.slug = slug; new Blog(req.body); save()
ProbeNext(r) ==
  IF FindOneSlug(r.slug, NoId)
  THEN [r EXCEPT !.slug = Suffixed(r.baseSlug, r.count), !.count = r.count + 1]
  ELSE SaveEntry([r.body EXCEPT !.slug = r.slug])

\* one turn of the same loop in the pre('save') hook and, once the slug is
\* free, this.slug = slug; the insert is the next store call
HookNext(r) ==
  IF FindOneSlug(r.slug, NoId)
  THEN [r EXCEPT !.slug = Suffixed(r.baseSlug, r.count), !.count = r.count + 1]
  ELSE [r EXCEPT !.pc = "insert", !.body = [r.body EXCEPT !.slug = r.slug]]

\* where a POST stands after its first store call
CreateEntry(body) ==
  IF RouteProbes(body)
  THEN ProbeNext([pc |-> "probe", id |-> NoParam, body |-> body,
                  baseSlug |-> Slugify(body.title), slug |-> Slugify(body.title),
                  count |-> 1, alone |-> FALSE])
  ELSE LET e == SaveEntry(body)
       IN  IF e.pc = "hook" THEN HookNext(e) ELSE e

\* POST /api/blogs
CreateBegin(s, body) ==
  /\ Free(s)
  /\ nreq' = nreq + 1
  /\ hist' = IF /\ InFlight = {}
                /\ body.slug = Absent /\ Truthy(body.title) /\ Truthy(body.author)
                /\ \/ hist.kind = "none"
                   \/ hist.kind = "pure" /\ hist.title = body.title
             THEN [kind |-> "pure", title |-> body.title]
             ELSE Mixed
  /\ LET e == CreateEntry(body)
     IN  IF e.pc = "invalid"
         THEN /\ resp' = Invalid("create", e.paths, NoId)
              /\ reqs' = Others(s)
         ELSE /\ reqs' = [Others(s) EXCEPT ![s] = e]
              /\ UNCHANGED resp
  /\ UNCHANGED <<variant, posts, nextId>>

CreateProbe(s) ==
  /\ reqs[s].pc = "probe"
  /\ LET e == ProbeNext(reqs[s])
     IN  IF e.pc = "invalid"
         THEN /\ resp' = Invalid("create", e.paths, NoId)
              /\ reqs' = [reqs EXCEPT ![s] = Idle]
         ELSE /\ reqs' = [reqs EXCEPT ![s] = e]
              /\ UNCHANGED resp
  /\ UNCHANGED <<variant, posts, nextId, nreq, hist>>

SaveHook(s) ==
  /\ reqs[s].pc = "hook"
  /\ reqs' = [reqs EXCEPT ![s] = HookNext(reqs[s])]
  /\ UNCHANGED <<variant, posts, nextId, nreq, resp, hist>>

\* an insert that, on E11000, goes back to the hook's loop with the next suffix
InsertRetries(s) ==
  /\ reqs[s].pc = "insert"
  /\ LET r == reqs[s]
     IN  IF UniqueIndexRejects(r.body.slug, NoId)
         THEN /\ reqs' = [reqs EXCEPT ![s].pc = "hook",
                                      ![s].slug = Suffixed(r.baseSlug, r.count),
                                      ![s].count = r.count + 1]
              /\ UNCHANGED <<posts, nextId, resp>>
         ELSE /\ posts' = [i \in Ids \cup {nextId} |->
                             IF i = nextId
                             THEN [title |-> r.body.title, slug |-> r.body.slug,
                                   author |-> r.body.author, createdAt |-> nextId]
                             ELSE posts[i]]
              /\ nextId' = nextId + 1
              /\ resp' = Plain("create", 200, "none", nextId)
              /\ reqs' = [reqs EXCEPT ![s] = Idle]
  /\ UNCHANGED <<variant, nreq, hist>>

\* the store applies the insert: E11000 if the unique index has the slug,
\* otherwise the post is stored under a fresh id; the catch block answers 400
Insert(s) ==
  /\ reqs[s].pc = "insert"
  /\ LET r == reqs[s]
     IN  IF UniqueIndexRejects(r.body.slug, NoId)
         THEN /\ resp' = Plain("create", 400, "E11000", NoId)
              /\ UNCHANGED <<posts, nextId>>
         ELSE /\ posts' = [i \in Ids \cup {nextId} |->
                             IF i = nextId
                             THEN [title |-> r.body.title, slug |-> r.body.slug,
                                   author |-> r.body.author, createdAt |-> nextId]
                             ELSE posts[i]]
              /\ nextId' = nextId + 1
              /\ resp' = Plain("create", 200, "none", nextId)
  /\ reqs' = [reqs EXCEPT ![s] = Idle]
  /\ UNCHANGED <<variant, nreq, hist>>

\* the PUT route's loop without the  _id: { $ne: req.params.id }  clause
UpdateProbeNoExclusion(r) ==
  IF ~r.id.wf THEN [pc |-> "casterror"]
  ELSE IF FindOneSlug(r.slug, NoId)
  THEN [r EXCEPT !.slug = Suffixed(r.baseSlug, r.count), !.count = r.count + 1]
  ELSE [r EXCEPT !.pc = "uwrite", !.body = [r.body EXCEPT !.slug = r.slug]]

\* one turn of the PUT route's loop
\*   while (await Blog.findOne({ slug, _id: { $ne: req.params.id } })) ...
\* and, once the slug is free, req.body.slug = slug.  A malformed id fails
\* the query's cast.
UpdateProbeNext(r) ==
  IF ~r.id.wf THEN [pc |-> "casterror"]
  ELSE IF FindOneSlug(r.slug, r.id.n)
  THEN [r EXCEPT !.slug = Suffixed(r.baseSlug, r.count), !.count = r.count + 1]
  ELSE [r EXCEPT !.pc = "uwrite", !.body = [r.body EXCEPT !.slug = r.slug]]

\* the fields an update sets replace the stored ones, the others stay
Patched(post, body) ==
  [title     |-> IF body.title # Absent THEN body.title ELSE post.title,
   slug      |-> IF body.slug # Absent THEN body.slug ELSE post.slug,
   author    |-> IF body.author # Absent THEN body.author ELSE post.author,
   createdAt |-> post.createdAt]

\* Blog.findByIdAndUpdate(req.params.id, req.body, { new: true, ... }) and the
\* route's answer: 400 from the catch block (cast, validators, E11000), 404
\* when no post has the id, 200 otherwise
UpdateResponse(r) ==
  IF ~r.id.wf THEN Plain("update", 400, "CastError", NoId)
  ELSE IF InvalidUpdatePaths(r.body) # {} THEN Invalid("update", InvalidUpdatePaths(r.body), r.id.n)
  ELSE IF r.id.n \notin Ids THEN Plain("update", 404, "none", r.id.n)
  ELSE IF r.body.slug # Absent /\ UniqueIndexRejects(r.body.slug, r.id.n)
  THEN Plain("update", 400, "E11000", r.id.n)
  ELSE Plain("update", 200, "none", r.id.n)

UpdateApply(r) ==
  /\ resp' = UpdateResponse(r)
  /\ posts' = IF UpdateResponse(r).status = 200
              THEN [posts EXCEPT ![r.id.n] = Patched(@, r.body)]
              ELSE posts

\* where a PUT stands at its first store call: if (req.body.title) the probe
\* loop, else findByIdAndUpdate
UpdateEntry(param, body, alone) ==
  [pc |-> IF Truthy(body.title) THEN "uprobe" ELSE "uwrite",
   id |-> param, body |-> body,
   baseSlug |-> IF Truthy(body.title) THEN Slugify(body.title) ELSE NoText,
   slug |-> IF Truthy(body.title) THEN Slugify(body.title) ELSE NoText,
   count |-> 1, alone |-> alone]

\* PUT /api/blogs/:id
UpdateBegin(s, param, body) ==
  /\ Free(s)
  /\ param \in Params
  /\ nreq' = nreq + 1
  /\ hist' = Mixed
  /\ LET r0 == UpdateEntry(param, body, InFlight = {})
     IN  IF r0.pc = "uwrite"
         THEN /\ UpdateApply(r0)
              /\ reqs' = Others(s)
         ELSE LET e == UpdateProbeNext(r0)
              IN  IF e.pc = "casterror"
                  THEN /\ resp' = Plain("update", 400, "CastError", NoId)
                       /\ reqs' = Others(s)
                       /\ UNCHANGED posts
                  ELSE /\ reqs' = [Others(s) EXCEPT ![s] = e]
                       /\ UNCHANGED <<resp, posts>>
  /\ UNCHANGED <<variant, nextId>>

UpdateProbe(s) ==
  /\ reqs[s].pc = "uprobe"
  /\ reqs' = [reqs EXCEPT ![s] = UpdateProbeNext(reqs[s])]
  /\ UNCHANGED <<variant, posts, nextId, nreq, resp, hist>>

UpdateWrite(s) ==
  /\ reqs[s].pc = "uwrite"
  /\ UpdateApply(reqs[s])
  /\ reqs' = [reqs EXCEPT ![s] = Idle]
  /\ UNCHANGED <<variant, nextId, nreq, hist>>

\* a DELETE route without the  if (!blog) return res.status(404)  line
DeleteAlwaysOk(param) ==
  IF ~param.wf THEN Plain("delete", 500, "CastError", NoId)
  ELSE Plain("delete", 200, "none", param.n)

\* DELETE /api/blogs/:id: Blog.findByIdAndDelete; a cast error reaches the
\* catch block, which answers 500
DeleteResponse(param) ==
  IF ~param.wf THEN Plain("delete", 500, "CastError", NoId)
  ELSE IF param.n \notin Ids THEN Plain("delete", 404, "none", param.n)
  ELSE Plain("delete", 200, "none", param.n)

Delete(param) ==
  /\ nreq' = nreq + 1
  /\ param \in Params
  /\ resp' = DeleteResponse(param)
  /\ posts' = IF DeleteResponse(param).status = 200
              THEN [i \in Ids \ {param.n} |-> posts[i]]
              ELSE posts
  /\ reqs' = Others(0)
  /\ hist' = Mixed
  /\ UNCHANGED <<variant, nextId>>

\* GET /api/blogs/:id: Blog.findById; a cast error reaches the catch block,
\* which answers 500
GetByIdResponse(param) ==
  IF ~param.wf THEN Plain("get", 500, "CastError", NoId)
  ELSE IF param.n \notin Ids THEN Plain("get", 404, "none", param.n)
  ELSE Plain("get", 200, "none", param.n)

GetById(param) ==
  /\ nreq' = nreq + 1
  /\ param \in Params
  /\ resp' = GetByIdResponse(param)
  /\ UNCHANGED <<variant, posts, nextId, reqs, hist>>

\* GET /api/blogs/count: Blog.countDocuments
Count(search) ==
  /\ nreq' = nreq + 1
  /\ resp' = Response("count", 200, "none", {}, NoId, search,
                      Cardinality(CountQuery(search)), NoItems)
  /\ UNCHANGED <<variant, posts, nextId, reqs, hist>>

\* GET /api/blogs: Blog.find(query).sort().skip().limit()
ListPage(search, page, limit) ==
  SkipLimit(SortNewestFirst(ListQuery(search)), page, limit)

List(search, page, limit) ==
  /\ nreq' = nreq + 1
  /\ resp' = Response("list", 200, "none", {}, NoId, search, 0,
                      ListPage(search, page, limit))
  /\ UNCHANGED <<variant, posts, nextId, reqs, hist>>

\* a further request is received
Accepting == nreq < MaxReqs

\* the write routes, under any interleaving of their store calls
NextWrites ==
  \/ Accepting /\ \E s \in Slots, body \in Bodies : CreateBegin(s, body)
  \/ \E s \in Slots : CreateProbe(s)
  \/ \E s \in Slots : SaveHook(s)
  \/ \E s \in Slots : Insert(s)
  \/ Accepting /\ \E s \in Slots, param \in ParamSpace, body \in Bodies :
                    UpdateBegin(s, param, body)
  \/ \E s \in Slots : UpdateProbe(s)
  \/ \E s \in Slots : UpdateWrite(s)
  \/ Accepting /\ \E param \in ParamSpace : Delete(param)

\* the read routes
NextReads ==
  \/ Accepting /\ \E param \in ParamSpace : GetById(param)
  \/ Accepting /\ \E search \in Searches : Count(search)
  \/ Accepting /\ \E search \in Searches, page \in Pages, limit \in Limits :
                    List(search, page, limit)

Next == NextWrites \/ NextReads

\* every route
Spec == Init /\ [][Next]_vars

\* the write routes alone: the reads leave the store and the requests in
\* flight as they are
SpecWrites == Init /\ [][NextWrites]_vars

\* a client that sends its write requests one at a time, each after the
\* answer to the one before, never sends a slug field, and sends no title
\* whose base slug is empty
SerialAccepting == nreq < MaxSerialReqs /\ InFlight = {}
SerialBodies ==
  { body \in Bodies :
      /\ body.slug = Absent
      /\ Truthy(body.title) => Slugify(body.title) # <<>> }

NextSerial ==
  \/ SerialAccepting /\ \E s \in Slots, body \in SerialBodies : CreateBegin(s, body)
  \/ \E s \in Slots : CreateProbe(s)
  \/ \E s \in Slots : SaveHook(s)
  \/ \E s \in Slots : Insert(s)
  \/ SerialAccepting /\ \E s \in Slots, param \in ParamSpace, body \in SerialBodies :
                          UpdateBegin(s, param, body)
  \/ \E s \in Slots : UpdateProbe(s)
  \/ \E s \in Slots : UpdateWrite(s)
  \/ SerialAccepting /\ \E param \in ParamSpace : Delete(param)

SpecSerial == Init /\ [][NextSerial]_vars

TypeOK ==
  /\ variant \in {"server", "part_000"}
  /\ nextId \in 1..(MaxReqs + 1)
  /\ nreq \in 0..MaxReqs
  /\ Ids \subseteq 1..(nextId - 1)
  /\ \A s \in Slots : reqs[s].pc \in {"idle", "probe", "hook", "insert", "uprobe", "uwrite"}
  /\ resp.status \in {0, 200, 400, 404, 500}

\* ---------------------------------------------------------------- claims

\* C1: in every reachable state, under any interleaving of the store calls of
\* create, update and delete requests, no two stored posts have the same slug.
C1_SlugsUnique ==
  \A i \in Ids, j \in Ids : i # j => posts[i].slug # posts[j].slug

\* two posts with the same title are stored, so the second was given another slug
C1_Witness ==
  \E i \in Ids, j \in Ids : i # j /\ posts[i].title = posts[j].title

\* C2: no stored post has the empty string as its slug.
C2_SlugsNonEmpty ==
  \A i \in Ids : posts[i].slug # <<>>

\* C3: while the only requests so far are creates of one title with every
\* required field and no slug, each begun when none was in flight, each create
\* that has answered has succeeded and the k-th post created (k = 0, 1, ...)
\* has slug base for k = 0 and base-k for k >= 1.
C3_SerialCreates ==
  hist.kind = "pure" =>
    /\ resp.op = "create" => resp.status = 200
    /\ \A i \in Ids :
         posts[i].slug = IF i = 1 THEN Slugify(hist.title)
                         ELSE Suffixed(Slugify(hist.title), i - 1)

\* C3 in the revision whose schema does not require a slug (src/server.js)
C3_SerialCreatesServer == variant = "server" => C3_SerialCreates

\* C4: an update whose body carries no title leaves the slug of the post it
\* names as it was.
C4_NoTitleKeepsSlug ==
  [][\A s \in Slots, param \in ParamSpace, body \in Bodies :
       (body.title = Absent /\ param.wf /\ param.n \in Ids /\ UpdateBegin(s, param, body))
         => posts'[param.n].slug = posts[param.n].slug]_vars

\* the smallest k >= 1 such that base-k is the slug of no post other than p
MinSuffix(base, p) ==
  CHOOSE k \in 1..(Cardinality(Ids) + 1) :
    /\ ~FindOneSlug(Suffixed(base, k), p)
    /\ \A j \in 1..(k - 1) : FindOneSlug(Suffixed(base, j), p)

\* C5: when an update of an existing post P that ran with no other request
\* handled meanwhile, and that sets a title whose base slug is the slug of
\* another post, makes its write, the answer is 200, P's slug becomes base-k
\* for the smallest k >= 1 that no other post uses, and no other post changes.
C5_RetitleTakesNextFree ==
  [][\A s \in Slots :
       ( /\ reqs[s].pc = "uwrite" /\ reqs'[s].pc = "idle"
         /\ reqs[s].alone
         /\ Truthy(reqs[s].body.title)
         /\ reqs[s].id.n \in Ids
         /\ FindOneSlug(Slugify(reqs[s].body.title), reqs[s].id.n) )
       => /\ resp'.op = "update" /\ resp'.status = 200
          /\ DOMAIN posts' = Ids
          /\ posts'[reqs[s].id.n].slug =
               Suffixed(Slugify(reqs[s].body.title),
                        MinSuffix(Slugify(reqs[s].body.title), reqs[s].id.n))
          /\ \A q \in Ids \ {reqs[s].id.n} : posts'[q] = posts[q]]_vars

\* an update that ran alone stands at its write: it sets a new title whose
\* base slug another post holds, and the post it names holds base-1 itself
C5_Witness ==
  \E s \in Slots :
    /\ reqs[s].pc = "uwrite" /\ reqs[s].alone
    /\ reqs[s].id.n \in Ids
    /\ posts[reqs[s].id.n].title # reqs[s].body.title
    /\ Slugify(reqs[s].body.title) # <<>>
    /\ FindOneSlug(Slugify(reqs[s].body.title), reqs[s].id.n)
    /\ reqs[s].body.slug = Suffixed(Slugify(reqs[s].body.title), 1)

\* the posts the listing route returns over all its pages
RECURSIVE PagesTotal(_, _, _)
PagesTotal(search, page, limit) ==
  IF ListPage(search, page, limit) = <<>> THEN 0
  ELSE Len(ListPage(search, page, limit)) + PagesTotal(search, page + 1, limit)

\* C6: the count route answers the number of posts the listing route returns
\* over all its pages for the same search text.
C6_CountMatchesListing ==
  resp.op = "count" => resp.count = PagesTotal(resp.search, 1, DefaultLimit)

\* C6 in the revision whose count route filters (src/server.js)
C6_CountMatchesListingServer == variant = "server" => C6_CountMatchesListing

\* C7: a request whose id is malformed is answered 4xx, never 500.
C7_MalformedIdIsClientError ==
  resp.err = "CastError" => resp.status \in {400, 404}

\* C8: a delete of a well-formed id that no stored post has is answered 404
\* and leaves the store as it was; and an id that was assigned and is no
\* longer stored is never stored again.
C8_DeleteAbsentNotFound ==
  [][/\ \A param \in ParamSpace :
          (param.wf /\ param.n \notin Ids /\ Delete(param))
            => (resp'.op = "delete" /\ resp'.status = 404 /\ posts' = posts)
     /\ \A i \in 1..(nextId - 1) : i \notin Ids => i \notin DOMAIN posts']_vars

\* a delete of an id that had been assigned, and deleted, was answered 404
C8_Witness ==
  /\ resp.op = "delete" /\ resp.status = 404
  /\ resp.id \in 1..(nextId - 1)

\* C9: a create whose title is missing or empty is answered 400 with a
\* validation error at once, and the stored posts stay as they were.
C9_EmptyTitleRejected ==
  [][\A s \in Slots, body \in Bodies :
       (~Truthy(body.title) /\ CreateBegin(s, body))
         => /\ resp'.op = "create" /\ resp'.status = 400
            /\ resp'.err = "ValidationError"
            /\ posts' = posts
            /\ reqs'[s] = Idle]_vars

\* a create was refused for its title while the store holds a post
C9_Witness ==
  /\ resp.op = "create" /\ resp.status = 400
  /\ "title" \in resp.paths
  /\ Ids # {}

\* C10: when a create makes its insert, it is answered 400 with the store's
\* duplicate-key error, stores nothing and ends if a stored post has its slug;
\* otherwise it is answered 200 and its post is stored with that slug.
C10_RaceLoserRejected ==
  [][\A s \in Slots :
       (reqs[s].pc = "insert" /\ reqs'[s] # reqs[s])
         => IF FindOneSlug(reqs[s].body.slug, NoId)
            THEN /\ resp' = Plain("create", 400, "E11000", NoId)
                 /\ posts' = posts
                 /\ reqs'[s] = Idle
            ELSE /\ resp'.op = "create" /\ resp'.status = 200
                 /\ reqs'[s] = Idle
                 /\ \A j \in Ids : j \in DOMAIN posts' /\ posts'[j] = posts[j]
                 /\ \E i \in DOMAIN posts' \ Ids :
                      posts'[i].slug = reqs[s].body.slug]_vars

\* two requests were received, both creates: one's post is stored, the other
\* passed the probe with the same slug and was refused at its insert
C10_Witness ==
  /\ resp.op = "create" /\ resp.err = "E11000" /\ resp.status = 400
  /\ nreq = 2 /\ Cardinality(Ids) = 1

\* C11: when an update that sends the title the post it names already has
\* makes its write, the post's slug stays as it was.
C11_SameTitleKeepsSlug ==
  [][\A s \in Slots :
       ( /\ reqs[s].pc = "uwrite" /\ reqs'[s].pc = "idle"
         /\ reqs[s].id.n \in Ids
         /\ reqs[s].body.title = posts[reqs[s].id.n].title )
       => posts'[reqs[s].id.n].slug = posts[reqs[s].id.n].slug]_vars

====
